---------------------------- MODULE Spec2Model ----------------------------
(***************************************************************************)
(* A model of MorseCode.py: the text <-> Morse codec (text_to_morse,       *)
(* morse_to_text), the line classifier (is_morse_line), the clipboard      *)
(* writer (copy_to_clipboard) and the interactive loop (main).             *)
(*                                                                         *)
(* A Python str is a sequence of code points.  A code point is a           *)
(* one-character TLA+ string for ASCII ("A", ".", " ", "\t") and the       *)
(* string "U+XXXX" for anything else, so a glyph made of two code points   *)
(* is a sequence of length two, as len() sees it in Python.                *)
(***************************************************************************)
EXTENDS Integers, Sequences, FiniteSets, TLC

VARIABLES
  s,          \* SpecCodec: the argument string handed to the codec
  op,         \* SpecCodec: which call has been made on s
  morse,      \* text_to_morse's return value (main's local `morse`)
  text,       \* morse_to_text's return value
  decoded,    \* the value of decoded_text (line 196) for each word segment
  isMorse,    \* is_morse_line's return value
  pc,         \* Spec: main's position
  line,       \* main's local `line`
  stdout,     \* the lines print() has written, in order
  stderr,     \* what reached the terminal's error stream
  clipboard,  \* the system clipboard's content
  copies,     \* what each copy_to_clipboard call returned (main discards it)
  pyclip,     \* module global _pyclip: TRUE when pyperclip was imported
  system,     \* platform.system().lower()
  nread       \* number of input() calls that returned a line

vars == <<s, op, morse, text, decoded, isMorse, pc, line, stdout, stderr,
          clipboard, copies, pyclip, system, nread>>

mainVars  ==<<pc, line, stdout, stderr, clipboard, copies, pyclip, system,
               nread>>

-----------------------------------------------------------------------------
(* Bounds of the model. *)

MaxTextLen  == 3   \* longest text argument enumerated over TextAlphabet
MaxMorseLen == 5   \* longest Morse argument enumerated over MorseAlphabet
MaxReads    == 2   \* lines main reads before end of input

-----------------------------------------------------------------------------
(* The fixed tables, in source (dict insertion) order. *)

\* TEXT_TO_MORSE's literal, lines 138-150: (key, value) pairs.
TEXT_ITEMS ==
  <<
    << <<"A">>, <<".", "-">> >>,
    << <<"B">>, <<"-", ".", ".", ".">> >>,
    << <<"C">>, <<"-", ".", "-", ".">> >>,
    << <<"D">>, <<"-", ".", ".">> >>,
    << <<"E">>, <<".">> >>,
    << <<"F">>, <<".", ".", "-", ".">> >>,
    << <<"G">>, <<"-", "-", ".">> >>,
    << <<"H">>, <<".", ".", ".", ".">> >>,
    << <<"I">>, <<".", ".">> >>,
    << <<"J">>, <<".", "-", "-", "-">> >>,
    << <<"K">>, <<"-", ".", "-">> >>,
    << <<"L">>, <<".", "-", ".", ".">> >>,
    << <<"M">>, <<"-", "-">> >>,
    << <<"N">>, <<"-", ".">> >>,
    << <<"O">>, <<"-", "-", "-">> >>,
    << <<"P">>, <<".", "-", "-", ".">> >>,
    << <<"Q">>, <<"-", "-", ".", "-">> >>,
    << <<"R">>, <<".", "-", ".">> >>,
    << <<"S">>, <<".", ".", ".">> >>,
    << <<"T">>, <<"-">> >>,
    << <<"U">>, <<".", ".", "-">> >>,
    << <<"V">>, <<".", ".", ".", "-">> >>,
    << <<"W">>, <<".", "-", "-">> >>,
    << <<"X">>, <<"-", ".", ".", "-">> >>,
    << <<"Y">>, <<"-", ".", "-", "-">> >>,
    << <<"Z">>, <<"-", "-", ".", ".">> >>,
    << <<"0">>, <<"-", "-", "-", "-", "-">> >>,
    << <<"1">>, <<".", "-", "-", "-", "-">> >>,
    << <<"2">>, <<".", ".", "-", "-", "-">> >>,
    << <<"3">>, <<".", ".", ".", "-", "-">> >>,
    << <<"4">>, <<".", ".", ".", ".", "-">> >>,
    << <<"5">>, <<".", ".", ".", ".", ".">> >>,
    << <<"6">>, <<"-", ".", ".", ".", ".">> >>,
    << <<"7">>, <<"-", "-", ".", ".", ".">> >>,
    << <<"8">>, <<"-", "-", "-", ".", ".">> >>,
    << <<"9">>, <<"-", "-", "-", "-", ".">> >>,
    << <<".">>, <<".", "-", ".", "-", ".", "-">> >>,
    << <<",">>, <<"-", "-", ".", ".", "-", "-">> >>,
    << <<"?">>, <<".", ".", "-", "-", ".", ".">> >>,
    << <<"'">>, <<".", "-", "-", "-", "-", ".">> >>,
    << <<"!">>, <<"-", ".", "-", ".", "-", "-">> >>,
    << <<"/">>, <<"-", ".", ".", "-", ".">> >>,
    << <<"(">>, <<"-", ".", "-", "-", ".">> >>,
    << <<")">>, <<"-", ".", "-", "-", ".", "-">> >>,
    << <<"&">>, <<".", "-", ".", ".", ".">> >>,
    << <<":">>, <<"-", "-", "-", ".", ".", ".">> >>,
    << <<";">>, <<"-", ".", "-", ".", "-", ".">> >>,
    << <<"=">>, <<"-", ".", ".", ".", "-">> >>,
    << <<"+">>, <<".", "-", ".", "-", ".">> >>,
    << <<"-">>, <<"-", ".", ".", ".", ".", "-">> >>,
    << <<"_">>, <<".", ".", "-", "-", ".", "-">> >>,
    << <<"\"">>, <<".", "-", ".", ".", "-", ".">> >>,
    << <<"$">>, <<".", ".", ".", "-", ".", ".", "-">> >>,
    << <<"@">>, <<".", "-", "-", ".", "-", ".">> >>
  >>

\* EMOJI_TO_REFERENCE's literal, lines 66-132: (glyph, reference name) pairs.
EMOJI_ITEMS ==
  <<
    << <<"U+1F600">>,
       <<"G", "R", "I", "N", "N", "I", "N", "G", "_", "F", "A", "C", "E">> >>,
    << <<"U+1F601">>,
       <<"B", "E", "A", "M", "I", "N", "G", "_", "F", "A", "C", "E">> >>,
    << <<"U+1F602">>,
       <<"F", "A", "C", "E", "_", "W", "I", "T", "H", "_", "T", "E", "A", "R", "S", "_", "O", "F", "_", "J", "O", "Y">> >>,
    << <<"U+1F603">>,
       <<"G", "R", "I", "N", "N", "I", "N", "G", "_", "F", "A", "C", "E", "_", "W", "I", "T", "H", "_", "B", "I", "G", "_", "E", "Y", "E", "S">> >>,
    << <<"U+1F604">>,
       <<"G", "R", "I", "N", "N", "I", "N", "G", "_", "F", "A", "C", "E", "_", "W", "I", "T", "H", "_", "S", "M", "I", "L", "I", "N", "G", "_", "E", "Y", "E", "S">> >>,
    << <<"U+1F605">>,
       <<"G", "R", "I", "N", "N", "I", "N", "G", "_", "F", "A", "C", "E", "_", "W", "I", "T", "H", "_", "S", "W", "E", "A", "T">> >>,
    << <<"U+1F606">>,
       <<"G", "R", "I", "N", "N", "I", "N", "G", "_", "S", "Q", "U", "I", "N", "T", "I", "N", "G", "_", "F", "A", "C", "E">> >>,
    << <<"U+1F609">>,
       <<"W", "I", "N", "K", "I", "N", "G", "_", "F", "A", "C", "E">> >>,
    << <<"U+1F60A">>,
       <<"S", "M", "I", "L", "I", "N", "G", "_", "F", "A", "C", "E", "_", "W", "I", "T", "H", "_", "S", "M", "I", "L", "I", "N", "G", "_", "E", "Y", "E", "S">> >>,
    << <<"U+1F60D">>,
       <<"S", "M", "I", "L", "I", "N", "G", "_", "F", "A", "C", "E", "_", "W", "I", "T", "H", "_", "H", "E", "A", "R", "T", "_", "E", "Y", "E", "S">> >>,
    << <<"U+1F618">>,
       <<"F", "A", "C", "E", "_", "B", "L", "O", "W", "I", "N", "G", "_", "A", "_", "K", "I", "S", "S">> >>,
    << <<"U+1F617">>,
       <<"K", "I", "S", "S", "I", "N", "G", "_", "F", "A", "C", "E">> >>,
    << <<"U+1F60B">>,
       <<"F", "A", "C", "E", "_", "S", "A", "V", "O", "R", "I", "N", "G", "_", "F", "O", "O", "D">> >>,
    << <<"U+1F60C">>,
       <<"R", "E", "L", "I", "E", "V", "E", "D", "_", "F", "A", "C", "E">> >>,
    << <<"U+1F60F">>,
       <<"S", "M", "I", "R", "K", "I", "N", "G", "_", "F", "A", "C", "E">> >>,
    << <<"U+1F612">>,
       <<"U", "N", "A", "M", "U", "S", "E", "D", "_", "F", "A", "C", "E">> >>,
    << <<"U+1F614">>,
       <<"P", "E", "N", "S", "I", "V", "E", "_", "F", "A", "C", "E">> >>,
    << <<"U+1F62A">>,
       <<"S", "L", "E", "E", "P", "Y", "_", "F", "A", "C", "E">> >>,
    << <<"U+1F613">>,
       <<"D", "O", "W", "N", "C", "A", "S", "T", "_", "F", "A", "C", "E", "_", "W", "I", "T", "H", "_", "S", "W", "E", "A", "T">> >>,
    << <<"U+1F615">>,
       <<"C", "O", "N", "F", "U", "S", "E", "D", "_", "F", "A", "C", "E">> >>,
    << <<"U+1F632">>,
       <<"A", "S", "T", "O", "N", "I", "S", "H", "E", "D", "_", "F", "A", "C", "E">> >>,
    << <<"U+1F61E">>,
       <<"D", "I", "S", "A", "P", "P", "O", "I", "N", "T", "E", "D", "_", "F", "A", "C", "E">> >>,
    << <<"U+1F616">>,
       <<"C", "O", "N", "F", "O", "U", "N", "D", "E", "D", "_", "F", "A", "C", "E">> >>,
    << <<"U+1F622">>,
       <<"C", "R", "Y", "I", "N", "G", "_", "F", "A", "C", "E">> >>,
    << <<"U+1F62D">>,
       <<"L", "O", "U", "D", "L", "Y", "_", "C", "R", "Y", "I", "N", "G", "_", "F", "A", "C", "E">> >>,
    << <<"U+1F923">>,
       <<"R", "O", "L", "L", "I", "N", "G", "_", "O", "N", "_", "T", "H", "E", "_", "F", "L", "O", "O", "R", "_", "L", "A", "U", "G", "H", "I", "N", "G">> >>,
    << <<"U+1F633">>,
       <<"F", "L", "U", "S", "H", "E", "D", "_", "F", "A", "C", "E">> >>,
    << <<"U+1F621">>,
       <<"P", "O", "U", "T", "I", "N", "G", "_", "F", "A", "C", "E">> >>,
    << <<"U+1F620">>,
       <<"A", "N", "G", "R", "Y", "_", "F", "A", "C", "E">> >>,
    << <<"U+1F624">>,
       <<"F", "A", "C", "E", "_", "W", "I", "T", "H", "_", "S", "T", "E", "A", "M", "_", "F", "R", "O", "M", "_", "N", "O", "S", "E">> >>,
    << <<"U+1F628">>,
       <<"F", "E", "A", "R", "F", "U", "L", "_", "F", "A", "C", "E">> >>,
    << <<"U+1F630">>,
       <<"A", "N", "X", "I", "O", "U", "S", "_", "F", "A", "C", "E", "_", "W", "I", "T", "H", "_", "S", "W", "E", "A", "T">> >>,
    << <<"U+1F627">>,
       <<"A", "N", "G", "U", "I", "S", "H", "E", "D", "_", "F", "A", "C", "E">> >>,
    << <<"U+1F62C">>,
       <<"G", "R", "I", "M", "A", "C", "I", "N", "G", "_", "F", "A", "C", "E">> >>,
    << <<"U+1F610">>,
       <<"N", "E", "U", "T", "R", "A", "L", "_", "F", "A", "C", "E">> >>,
    << <<"U+1F611">>,
       <<"E", "X", "P", "R", "E", "S", "S", "I", "O", "N", "L", "E", "S", "S", "_", "F", "A", "C", "E">> >>,
    << <<"U+1F62E">>,
       <<"F", "A", "C", "E", "_", "W", "I", "T", "H", "_", "O", "P", "E", "N", "_", "M", "O", "U", "T", "H">> >>,
    << <<"U+2764", "U+FE0F">>,
       <<"R", "E", "D", "_", "H", "E", "A", "R", "T">> >>,
    << <<"U+1F494">>,
       <<"B", "R", "O", "K", "E", "N", "_", "H", "E", "A", "R", "T">> >>,
    << <<"U+1F495">>,
       <<"T", "W", "O", "_", "H", "E", "A", "R", "T", "S">> >>,
    << <<"U+1F496">>,
       <<"S", "P", "A", "R", "K", "L", "I", "N", "G", "_", "H", "E", "A", "R", "T">> >>,
    << <<"U+1F497">>,
       <<"G", "R", "O", "W", "I", "N", "G", "_", "H", "E", "A", "R", "T">> >>,
    << <<"U+1F498">>,
       <<"C", "U", "P", "I", "D">> >>,
    << <<"U+1F49A">>,
       <<"G", "R", "E", "E", "N", "_", "H", "E", "A", "R", "T">> >>,
    << <<"U+1F499">>,
       <<"B", "L", "U", "E", "_", "H", "E", "A", "R", "T">> >>,
    << <<"U+1F49C">>,
       <<"P", "U", "R", "P", "L", "E", "_", "H", "E", "A", "R", "T">> >>,
    << <<"U+1F49B">>,
       <<"Y", "E", "L", "L", "O", "W", "_", "H", "E", "A", "R", "T">> >>,
    << <<"U+1F389">>,
       <<"P", "A", "R", "T", "Y", "_", "P", "O", "P", "P", "E", "R">> >>,
    << <<"U+1F38A">>,
       <<"C", "O", "N", "F", "E", "T", "T", "I", "_", "B", "A", "L", "L">> >>,
    << <<"U+1F388">>,
       <<"B", "A", "L", "L", "O", "O", "N">> >>,
    << <<"U+1F381">>,
       <<"W", "R", "A", "P", "P", "E", "D", "_", "G", "I", "F", "T">> >>,
    << <<"U+2B50">>,
       <<"S", "T", "A", "R">> >>,
    << <<"U+2728">>,
       <<"S", "P", "A", "R", "K", "L", "E", "S">> >>,
    << <<"U+1F525">>,
       <<"F", "I", "R", "E">> >>,
    << <<"U+1F44D">>,
       <<"T", "H", "U", "M", "B", "S", "_", "U", "P">> >>,
    << <<"U+1F44E">>,
       <<"T", "H", "U", "M", "B", "S", "_", "D", "O", "W", "N">> >>,
    << <<"U+1F44B">>,
       <<"W", "A", "V", "I", "N", "G", "_", "H", "A", "N", "D">> >>,
    << <<"U+1F64C">>,
       <<"R", "A", "I", "S", "I", "N", "G", "_", "H", "A", "N", "D", "S">> >>,
    << <<"U+1F91D">>,
       <<"H", "A", "N", "D", "S", "H", "A", "K", "E">> >>,
    << <<"U+1F680">>,
       <<"R", "O", "C", "K", "E", "T">> >>,
    << <<"U+1F31F">>,
       <<"G", "L", "O", "W", "I", "N", "G", "_", "S", "T", "A", "R">> >>,
    << <<"U+2600", "U+FE0F">>,
       <<"S", "U", "N">> >>,
    << <<"U+1F319">>,
       <<"M", "O", "O", "N">> >>,
    << <<"U+26A1">>,
       <<"H", "I", "G", "H", "_", "V", "O", "L", "T", "A", "G", "E">> >>,
    << <<"U+1F4A7">>,
       <<"W", "A", "T", "E", "R", "_", "D", "R", "O", "P", "L", "E", "T">> >>
  >>

Range(f) == {f[i] : i \in DOMAIN f}

\* A dict built from (key, value) pairs in order: the last pair of a key wins.
LastIndex(items, k) ==
  CHOOSE i \in DOMAIN items :
    /\ items[i][1] = k
    /\ \A j \in DOMAIN items : items[j][1] = k => j <= i

DictOf(items) ==
  [k \in {items[i][1] : i \in DOMAIN items} |-> items[LastIndex(items, k)][2]]

\* The (value, key) pairs of a dict comprehension {v: k for k, v in d.items()}.
Swapped(items) == [i \in DOMAIN items |-> <<items[i][2], items[i][1]>>]

EMOJI_TO_REFERENCE == DictOf(EMOJI_ITEMS)

REFERENCE_TO_EMOJI ==
  DictOf(SelectSeq(Swapped(EMOJI_ITEMS), LAMBDA p : p[1] # <<>>))

\* The table with a stray space typed into the code of "$".
TEXT_TO_MORSE_Typo ==
  [k \in DOMAIN DictOf(TEXT_ITEMS) |->
     IF k = <<"$">> THEN DictOf(TEXT_ITEMS)[k] \o <<" ">>
                    ELSE DictOf(TEXT_ITEMS)[k]]

TEXT_TO_MORSE == DictOf(TEXT_ITEMS)

MORSE_TO_TEXT == DictOf(Swapped(TEXT_ITEMS))

-----------------------------------------------------------------------------
(* Python's str and list built-ins, as the code uses them. *)

\* The characters str.strip() and str.split() treat as whitespace.
Whitespace == {" ", "\t"}

LowerToUpper ==
  [c \in {"a", "b", "c", "d", "e", "f", "g", "h", "i", "j", "k", "l", "m",
          "n", "o", "p", "q", "r", "s", "t", "u", "v", "w", "x", "y", "z",
          "U+00E9"} |->
     CASE c = "a" -> "A" [] c = "b" -> "B" [] c = "c" -> "C" [] c = "d" -> "D"
       [] c = "e" -> "E" [] c = "f" -> "F" [] c = "g" -> "G" [] c = "h" -> "H"
       [] c = "i" -> "I" [] c = "j" -> "J" [] c = "k" -> "K" [] c = "l" -> "L"
       [] c = "m" -> "M" [] c = "n" -> "N" [] c = "o" -> "O" [] c = "p" -> "P"
       [] c = "q" -> "Q" [] c = "r" -> "R" [] c = "s" -> "S" [] c = "t" -> "T"
       [] c = "u" -> "U" [] c = "v" -> "V" [] c = "w" -> "W" [] c = "x" -> "X"
       [] c = "y" -> "Y" [] c = "z" -> "Z" [] c = "U+00E9" -> "U+00C9"]

\* str.upper(), character by character.
upper(str) ==
  [i \in DOMAIN str |->
     IF str[i] \in DOMAIN LowerToUpper THEN LowerToUpper[str[i]] ELSE str[i]]

RECURSIVE lstrip(_)
lstrip(str) ==
  IF str # <<>> /\ Head(str) \in Whitespace THEN lstrip(Tail(str)) ELSE str

RECURSIVE rstrip(_)
rstrip(str) ==
  IF str # <<>> /\ str[Len(str)] \in Whitespace
    THEN rstrip(SubSeq(str, 1, Len(str) - 1))
    ELSE str

\* str.strip()
strip(str) == rstrip(lstrip(str))

\* The least position from i on whose character is in chars (wanted) or is
\* not in chars (~wanted), or Len + 1.
Find(str, i, chars, wanted) ==
  LET hits == {j \in i..Len(str) : (str[j] \in chars) = wanted}
  IN  IF hits = {} THEN Len(str) + 1
      ELSE CHOOSE j \in hits : \A h \in hits : j <= h

\* The fields of str from position i on: skip whitespace, take the run of
\* non-whitespace, go on after it.
RECURSIVE split_ws(_, _)
split_ws(str, i) ==
  LET b == Find(str, i, Whitespace, FALSE)
      e == Find(str, b, Whitespace, TRUE)
  IN  IF b > Len(str) THEN <<>>
      ELSE <<SubSeq(str, b, e - 1)>> \o split_ws(str, e)

\* str.split(): the maximal runs of non-whitespace, in order.
split(str) == split_ws(str, 1)

\* The fields of str from position i on: up to the next sep, then the rest.
RECURSIVE split_sep(_, _, _)
split_sep(str, sep, i) ==
  LET e == Find(str, i, {sep}, TRUE)
  IN  IF e > Len(str) THEN <<SubSeq(str, i, Len(str))>>
      ELSE <<SubSeq(str, i, e - 1)>> \o split_sep(str, sep, e + 1)

\* str.split(sep) for a one-character sep: every field, empty ones included.
split_on(str, sep) == split_sep(str, sep, 1)

\* sep.join(parts)
RECURSIVE join(_, _)
join(sep, parts) ==
  IF parts = <<>> THEN <<>>
  ELSE IF Len(parts) = 1 THEN parts[1]
  ELSE parts[1] \o sep \o join(sep, Tail(parts))

\* str[i : i + n] with i counted from 1: the slice stops at the end of str.
Slice(str, i, n) ==
  SubSeq(str, i, IF i + n - 1 > Len(str) THEN Len(str) ELSE i + n - 1)

\* dict.get(key, ""): the value, or the empty string.  TEXT_TO_MORSE.get(key)
\* gives None instead, which the code tests for truthiness only, as it does "".
get(dict, key) == IF key \in DOMAIN dict THEN dict[key] ELSE <<>>

-----------------------------------------------------------------------------
(* is_morse_line, lines 153-156. *)

\* is_morse_line without the any() test of line 156.
is_morse_line_NoAny(str) ==
  LET allowed == {".", "-", "/", " ", "\t"}
      t       == strip(str)
  IN  /\ t # <<>>
      /\ \A i \in DOMAIN t : t[i] \in allowed

is_morse_line(str) ==
  LET allowed == {".", "-", "/", " ", "\t"}
      t       == strip(str)
  IN  /\ t # <<>>
      /\ \A i \in DOMAIN t : t[i] \in allowed
      /\ \E i \in DOMAIN t : t[i] \in {".", "-"}

-----------------------------------------------------------------------------
(* text_to_morse, lines 158-179. *)

\* Lines 169-172: the codes of the reference name's characters that have one.
RECURSIVE ref_codes(_)
ref_codes(emoji_ref) ==
  IF emoji_ref = <<>> THEN <<>>
  ELSE LET morse_code == get(TEXT_TO_MORSE, upper(<<Head(emoji_ref)>>))
       IN  (IF morse_code # <<>> THEN <<morse_code>> ELSE <<>>)
             \o ref_codes(Tail(emoji_ref))

\* The loop body looking ch up without upper().
char_codes_NoUpper(ch) ==
  IF ch \in DOMAIN EMOJI_TO_REFERENCE
    THEN ref_codes(EMOJI_TO_REFERENCE[ch])
    ELSE LET code == get(TEXT_TO_MORSE, ch)
         IN  << IF code # <<>> THEN code ELSE <<"[">> \o ch \o <<"]">> >>

\* The loop body putting the uppercased character into the placeholder.
char_codes_UpperPlaceholder(ch) ==
  IF ch \in DOMAIN EMOJI_TO_REFERENCE
    THEN ref_codes(EMOJI_TO_REFERENCE[ch])
    ELSE LET code == get(TEXT_TO_MORSE, upper(ch))
         IN  << IF code # <<>> THEN code ELSE <<"[">> \o upper(ch) \o <<"]">> >>

\* Lines 164-177: what one iteration of the while loop appends to codes for
\* ch = word[i], a string of one code point.
char_codes(ch) ==
  IF ch \in DOMAIN EMOJI_TO_REFERENCE
    THEN ref_codes(EMOJI_TO_REFERENCE[ch])
    ELSE LET code == get(TEXT_TO_MORSE, upper(ch))
         IN  << IF code # <<>> THEN code ELSE <<"[">> \o ch \o <<"]">> >>

\* Lines 161-177: codes after the while loop has run over word.
RECURSIVE word_codes(_)
word_codes(word) ==
  IF word = <<>> THEN <<>>
  ELSE char_codes(<<Head(word)>>) \o word_codes(Tail(word))

\* Line 179 joining with "/" alone.
join_words_NoSpaces(out_words) == join(<<"/">>, out_words)

\* Line 179.
join_words(out_words) == join(<<" ", "/", " ">>, out_words)

text_to_morse(str) ==
  LET words     == split(strip(str))
      out_words == [i \in DOMAIN words |-> join(<<" ">>, word_codes(words[i]))]
  IN  join_words(out_words)

-----------------------------------------------------------------------------
(* morse_to_text, lines 181-217. *)

\* REFERENCE_TO_EMOJI.keys(): the reference names in the dict's order, which
\* is the order in which each first appears as a value of EMOJI_TO_REFERENCE.
reference_keys ==
  LET first == SelectSeq([i \in DOMAIN EMOJI_ITEMS |-> i],
                         LAMBDA i : /\ EMOJI_ITEMS[i][2] # <<>>
                                    /\ \A j \in 1..(i - 1) :
                                         EMOJI_ITEMS[j][2] # EMOJI_ITEMS[i][2])
  IN  [n \in DOMAIN first |-> EMOJI_ITEMS[first[n]][2]]

\* sorted(keys, key=len) and sorted(keys, key=len, reverse=True): Python's
\* sort is stable either way, so keys of one length keep their order.
sorted_by_len(keys, reverse) ==
  LET rank(i) ==
        Cardinality({j \in DOMAIN keys :
                       \/ reverse /\ Len(keys[j]) > Len(keys[i])
                       \/ ~reverse /\ Len(keys[j]) < Len(keys[i])
                       \/ Len(keys[j]) = Len(keys[i]) /\ j < i}) + 1
  IN  [n \in DOMAIN keys |-> keys[CHOOSE i \in DOMAIN keys : rank(i) = n]]

\* The sort of line 204 without reverse=True: shortest key first.
sorted_refs_Ascending == sorted_by_len(reference_keys, FALSE)

\* Line 204: sorted(REFERENCE_TO_EMOJI.keys(), key=len, reverse=True).
sorted_refs == sorted_by_len(reference_keys, TRUE)

\* Lines 204-210: the first key of the sorted list that matches at i, or "".
first_match(decoded_text, i) ==
  LET hits == {k \in DOMAIN sorted_refs :
                 Slice(decoded_text, i, Len(sorted_refs[k])) = sorted_refs[k]}
  IN  IF hits = {} THEN <<>>
      ELSE sorted_refs[CHOOSE k \in hits : \A h \in hits : k <= h]

\* Lines 199-216: "".join(result) for the scan from position i on.
RECURSIVE collapse(_, _)
collapse(decoded_text, i) ==
  IF i > Len(decoded_text) THEN <<>>
  ELSE LET emoji_ref == first_match(decoded_text, i)
       IN  IF emoji_ref # <<>>
             THEN REFERENCE_TO_EMOJI[emoji_ref]
                    \o collapse(decoded_text, i + Len(emoji_ref))
             ELSE <<decoded_text[i]>> \o collapse(decoded_text, i + 1)

\* The token lookup leaving a marker for a token it does not know.
token_char_Marker(token) ==
  LET char == get(MORSE_TO_TEXT, token)
  IN  IF char # <<>> THEN char ELSE <<"#">>

\* Lines 192-194: what one token adds to decoded_chars.
token_char(token) ==
  LET char == get(MORSE_TO_TEXT, token)
  IN  IF char # <<>> THEN char ELSE <<>>

\* Lines 190-196: decoded_text, the characters of the tokens that have one.
RECURSIVE decode_tokens(_)
decode_tokens(tokens) ==
  IF tokens = <<>> THEN <<>>
  ELSE token_char(Head(tokens)) \o decode_tokens(Tail(tokens))

\* Lines 183-186: the word segments that are not empty once stripped.
raw_words(str) ==
  LET fields == split_on(strip(str), "/")
  IN  SelectSeq([i \in DOMAIN fields |-> strip(fields[i])],
                LAMBDA raw_word : raw_word # <<>>)

\* decoded_text (line 196) of every word segment, in order.
decoded_texts(str) ==
  LET raws == raw_words(str)
  IN  [i \in DOMAIN raws |-> decode_tokens(split(raws[i]))]

morse_to_text(str) ==
  LET dts   == decoded_texts(str)
      words == [i \in DOMAIN dts |-> collapse(dts[i], 1)]
  IN  join(<<" ">>, words)

-----------------------------------------------------------------------------
(* copy_to_clipboard and _run_pipe, lines 33-63. *)

\* What the external clipboard mechanisms can do when they are called.
PyclipOutcomes == {"ok", "raise"}
PipeOutcomes   == {"zero", "nonzero", "raise"}
Systems        == {"windows", "darwin", "linux"}

\* Line 43: the characters of text that are Morse characters.
sanitize(str) == SelectSeq(str, LAMBDA ch : ch \in {".", "-", "/", " ", "\t"})

\* _run_pipe without its except clause.
run_pipe_Uncaught(outcome) ==
  [ok |-> outcome = "zero", raised |-> outcome = "raise"]

\* _run_pipe, lines 33-39: True on exit status 0, False on any other status
\* and on any Exception (the command is missing, the pipe breaks).
run_pipe(outcome) == [ok |-> outcome = "zero", raised |-> FALSE]

\* copy_to_clipboard, lines 41-63: py is what _pyclip.copy does, o1 and o2
\* what the first and the second native command do.
copy_to_clipboard(str, hasPyclip, sys, py, o1, o2) ==
  LET first  == run_pipe(o1)
      second == run_pipe(o2)
  IN  IF hasPyclip /\ py = "ok" THEN [ok |-> TRUE, raised |-> FALSE]
      ELSE IF sys \in {"windows", "darwin"} THEN first
      ELSE IF first.raised \/ first.ok THEN first
      ELSE second

-----------------------------------------------------------------------------
(* main, lines 219-236. *)

Hello == <<"H", "e", "l", "l", "o">>

Banner == <<"M", "o", "r", "s", "e", " ", "C", "o", "d", "e", " ", "O", "u",
            "t", "p", "u", "t", " ", "i", "s", " ", "c", "o", "p", "i", "e",
            "d", " ", "t", "o", " ", "c", "l", "i", "p", "b", "o", "a", "r",
            "d", " ", "a", "u", "t", "o", "m", "a", "t", "i", "c", "a", "l",
            "l", "y", "!">>

\* The lines the user types.
MainLines ==
  { <<>>, <<" ", "\t">>, <<"/">>, <<".", "-">>, <<"?", " ", "/", " ", ".">>,
    <<"S", "U", "N">>, <<"s", " ", "U+00E9">>, <<"U+2600", "U+FE0F">> }

Init ==
  /\ pc = "start"
  /\ line = <<>>
  /\ morse = <<>>
  /\ stdout = <<>>
  /\ stderr = <<>>
  /\ clipboard = <<>>
  /\ copies = <<>>
  /\ pyclip \in BOOLEAN
  /\ system \in Systems
  /\ nread = 0
  /\ s = <<>> /\ op = "off" /\ text = <<>> /\ decoded = <<>> /\ isMorse = FALSE

\* Lines 220-221.
Greet ==
  /\ pc = "start"
  /\ stdout' = <<Hello, Banner>>
  /\ pc' = "input"
  /\ UNCHANGED <<line, morse, stderr, clipboard, copies, pyclip, system, nread>>
  /\ UNCHANGED <<s, op, text, decoded, isMorse>>

\* Lines 224-227: a line that is empty once stripped.
ReadBlank ==
  /\ pc = "input" /\ nread < MaxReads
  /\ \E l \in MainLines :
       /\ strip(l) = <<>>
       /\ line' = l
       /\ stdout' = Append(stdout, <<>>)
  /\ nread' = nread + 1
  /\ pc' = "input"
  /\ UNCHANGED <<morse, stderr, clipboard, copies, pyclip, system>>
  /\ UNCHANGED <<s, op, text, decoded, isMorse>>

\* Lines 224-229: a Morse line is decoded and printed.
ReadMorse ==
  /\ pc = "input" /\ nread < MaxReads
  /\ \E l \in MainLines :
       /\ strip(l) # <<>>
       /\ is_morse_line(l)
       /\ line' = l
       /\ stdout' = Append(stdout, morse_to_text(l))
  /\ nread' = nread + 1
  /\ pc' = "input"
  /\ UNCHANGED <<morse, stderr, clipboard, copies, pyclip, system>>
  /\ UNCHANGED <<s, op, text, decoded, isMorse>>

\* Lines 224-232: any other line is encoded and printed.
ReadText ==
  /\ pc = "input" /\ nread < MaxReads
  /\ \E l \in MainLines :
       /\ strip(l) # <<>>
       /\ ~is_morse_line(l)
       /\ line' = l
       /\ morse' = text_to_morse(l)
       /\ stdout' = Append(stdout, text_to_morse(l))
  /\ nread' = nread + 1
  /\ pc' = "copy"
  /\ UNCHANGED <<stderr, clipboard, copies, pyclip, system>>
  /\ UNCHANGED <<s, op, text, decoded, isMorse>>

\* Line 234: the copy; an exception other than EOFError and KeyboardInterrupt
\* would leave main with a traceback.
Copy ==
  /\ pc = "copy"
  /\ \E py \in PyclipOutcomes, o1 \in PipeOutcomes, o2 \in PipeOutcomes :
       LET r == copy_to_clipboard(morse, pyclip, system, py, o1, o2)
       IN  /\ clipboard' = IF r.ok THEN sanitize(morse) ELSE clipboard
           /\ copies' = Append(copies, r.ok)
           /\ stderr' = IF r.raised THEN <<"Traceback">> ELSE stderr
           /\ pc' = IF r.raised THEN "crashed" ELSE "input"
  /\ UNCHANGED <<line, morse, stdout, pyclip, system, nread>>
  /\ UNCHANGED <<s, op, text, decoded, isMorse>>

\* Lines 235-236: EOFError or KeyboardInterrupt at input() ends the loop.
EndOfInput ==
  /\ pc = "input"
  /\ pc' = "done"
  /\ UNCHANGED <<line, morse, stdout, stderr, clipboard, copies, pyclip,
                 system, nread>>
  /\ UNCHANGED <<s, op, text, decoded, isMorse>>

Next == Greet \/ ReadBlank \/ ReadMorse \/ ReadText \/ Copy \/ EndOfInput

Spec == Init /\ [][Next]_vars

-----------------------------------------------------------------------------
(* The codec's functions applied to one argument. *)

TextAlphabet  == {"S", "U", "N", "s", "U+00E9", " ", "\t", "U+2B50"}
MorseAlphabet == {".", "-", " ", "/", "?"}

StringsUpTo(alphabet, n) == UNION {[1..k -> alphabet] : k \in 0..n}

Inputs ==
  StringsUpTo(TextAlphabet, MaxTextLen)
    \cup StringsUpTo(MorseAlphabet, MaxMorseLen)
    \cup DOMAIN TEXT_TO_MORSE
    \cup DOMAIN EMOJI_TO_REFERENCE
    \cup DOMAIN REFERENCE_TO_EMOJI

InitCodec ==
  /\ s \in Inputs
  /\ op = "none"
  /\ morse = <<>> /\ text = <<>> /\ decoded = <<>> /\ isMorse = FALSE
  /\ pc = "off" /\ line = <<>> /\ stdout = <<>> /\ stderr = <<>>
  /\ clipboard = <<>> /\ copies = <<>> /\ pyclip = FALSE
  /\ system = "linux" /\ nread = 0

CallIsMorseLine ==
  /\ op = "none"
  /\ isMorse' = is_morse_line(s)
  /\ op' = "is_morse_line"
  /\ UNCHANGED <<s, morse, text, decoded>>
  /\ UNCHANGED mainVars

CallTextToMorse ==
  /\ op = "none"
  /\ morse' = text_to_morse(s)
  /\ op' = "text_to_morse"
  /\ UNCHANGED <<s, text, decoded, isMorse>>
  /\ UNCHANGED mainVars

CallMorseToText ==
  /\ op = "none"
  /\ text' = morse_to_text(s)
  /\ decoded' = decoded_texts(s)
  /\ op' = "morse_to_text"
  /\ UNCHANGED <<s, morse, isMorse>>
  /\ UNCHANGED mainVars

\* morse_to_text applied to what text_to_morse returned.
CallRoundTrip ==
  /\ op = "text_to_morse"
  /\ text' = morse_to_text(morse)
  /\ decoded' = decoded_texts(morse)
  /\ op' = "round_trip"
  /\ UNCHANGED <<s, morse, isMorse>>
  /\ UNCHANGED mainVars

NextCodec ==
  CallIsMorseLine \/ CallTextToMorse \/ CallMorseToText \/ CallRoundTrip

SpecCodec == InitCodec /\ [][NextCodec]_vars

-----------------------------------------------------------------------------
(* Vocabulary of the properties. *)

RECURSIVE Concat(_)
Concat(parts) == IF parts = <<>> THEN <<>> ELSE Head(parts) \o Concat(Tail(parts))

IsMapped(c) == upper(<<c>>) \in DOMAIN TEXT_TO_MORSE

IsEmojiKey(c) == <<c>> \in DOMAIN EMOJI_TO_REFERENCE

\* The codes of the letters of a name, one token per letter, space-separated.
LetterCodes(name) ==
  join(<<" ">>, [i \in DOMAIN name |-> TEXT_TO_MORSE[<<name[i]>>]])

\* The words of str: where each starts, and the characters up to the next
\* whitespace.
WordStarts(str) ==
  {i \in DOMAIN str :
     str[i] \notin Whitespace /\ (i = 1 \/ str[i - 1] \in Whitespace)}

WordEnd(str, i) ==
  CHOOSE j \in i..Len(str) :
    /\ \A k \in i..j : str[k] \notin Whitespace
    /\ (j = Len(str) \/ str[j + 1] \in Whitespace)

\* The k-th smallest element of a set of numbers.
Nth(S, k) == CHOOSE x \in S : Cardinality({y \in S : y < x}) = k - 1

WordsOf(str) ==
  [k \in 1..Cardinality(WordStarts(str)) |->
     SubSeq(str, Nth(WordStarts(str), k), WordEnd(str, Nth(WordStarts(str), k)))]

\* Some reference name occurs inside str.
HasReferenceName(str) ==
  \E r \in DOMAIN REFERENCE_TO_EMOJI :
    \E i \in 1..Len(str) :
      i + Len(r) - 1 <= Len(str) /\ SubSeq(str, i, i + Len(r) - 1) = r

\* How many tokens the characters of word before position j produce.
RECURSIVE TokensBefore(_, _)
TokensBefore(word, j) ==
  IF j <= 1 THEN 0
  ELSE TokensBefore(word, j - 1)
         + (IF IsEmojiKey(word[j - 1])
              THEN Len(EMOJI_TO_REFERENCE[<<word[j - 1]>>]) ELSE 1)

\* The token groups of an encoded line: what lies between its slashes.
Slashes(encoded) == {i \in DOMAIN encoded : encoded[i] = "/"}

GroupsOf(encoded) ==
  LET n == Cardinality(Slashes(encoded))
  IN  [k \in 1..(n + 1) |->
         SubSeq(encoded,
                IF k = 1 THEN 1 ELSE Nth(Slashes(encoded), k - 1) + 1,
                IF k = n + 1 THEN Len(encoded)
                             ELSE Nth(Slashes(encoded), k) - 1)]

NoStraySpace(str) ==
  /\ str # <<>> => str[1] # " " /\ str[Len(str)] # " "
  /\ \A i \in 1..(Len(str) - 1) : ~(str[i] = " " /\ str[i + 1] = " ")

-----------------------------------------------------------------------------
(* C1 *)

C1Inputs(str) == \A i \in DOMAIN str : str[i] \in Whitespace \/ IsMapped(str[i])

\* C1, as claimed: for every string s whose characters are all whitespace or,
\* after uppercasing, keys of TEXT_TO_MORSE, morse_to_text(text_to_morse(s))
\* is s.upper() with its words separated by one space each.
C1_RoundTripAnyWord ==
  (op = "round_trip" /\ C1Inputs(s)) =>
    text = join(<<" ">>, WordsOf(upper(s)))

\* C1, amended: the same, for the strings s no word of which contains, once
\* uppercased, an emoji reference name (morse_to_text replaces each such
\* name by its glyph).
C1_RoundTrip ==
  (op = "round_trip" /\ C1Inputs(s)
     /\ \A w \in Range(WordsOf(upper(s))) : ~HasReferenceName(w)) =>
    text = join(<<" ">>, WordsOf(upper(s)))

C1_Witness ==
  /\ op = "round_trip"
  /\ s = <<"s", "\t", "N">>
  /\ text = <<"S", " ", "N">>

-----------------------------------------------------------------------------
(* C2 *)

\* C2: for every glyph that is a key of EMOJI_TO_REFERENCE, of one code
\* point or more, text_to_morse of the glyph is the codes of the letters of
\* its reference name, one token per letter, and no bracket placeholder.
C2_EmojiExpansion ==
  (op = "text_to_morse" /\ s \in DOMAIN EMOJI_TO_REFERENCE) =>
    morse = LetterCodes(EMOJI_TO_REFERENCE[s])

\* A glyph of one code point is expanded.
C2_Witness ==
  /\ op = "text_to_morse"
  /\ s = <<"U+2B50">>
  /\ morse = LetterCodes(<<"S", "T", "A", "R">>)

-----------------------------------------------------------------------------
(* C3 *)

\* C3: for every reference name R, morse_to_text of the codes of R's letters
\* is exactly the glyph mapped to R, also when a shorter reference name is a
\* prefix of R or occurs inside R.
C3_EmojiCollapse ==
  (op = "round_trip" /\ s \in DOMAIN REFERENCE_TO_EMOJI) =>
    /\ morse = LetterCodes(s)
    /\ text = REFERENCE_TO_EMOJI[s]

\* A reference name with a shorter one as its prefix has been collapsed.
C3_Witness ==
  /\ op = "round_trip"
  /\ s \in DOMAIN REFERENCE_TO_EMOJI
  /\ \E q \in DOMAIN REFERENCE_TO_EMOJI :
       Len(q) < Len(s) /\ SubSeq(s, 1, Len(q)) = q
  /\ text = REFERENCE_TO_EMOJI[s]

-----------------------------------------------------------------------------
(* C4 *)

\* C4: every character c of a word that is not an emoji key and whose
\* uppercase form is no key of TEXT_TO_MORSE gives the token "[c]" at c's
\* position among the word's tokens, and every other such character of the
\* line gives its Morse code at its position.
C4_UnmappedMarked ==
  op = "text_to_morse" =>
    LET words  == WordsOf(s)
        groups == GroupsOf(morse)
    IN  \A k \in DOMAIN words :
          LET tokens == WordsOf(groups[k])
          IN  \A j \in DOMAIN words[k] :
                LET c == words[k][j]
                    t == tokens[TokensBefore(words[k], j) + 1]
                IN  ~IsEmojiKey(c) =>
                      t = IF IsMapped(c) THEN TEXT_TO_MORSE[upper(<<c>>)]
                                         ELSE <<"[", c, "]">>

C4_Witness ==
  /\ op = "text_to_morse"
  /\ s = <<"S", "U+00E9", "N">>
  /\ morse = <<".", ".", ".", " ", "[", "U+00E9", "]", " ", "-", ".">>

-----------------------------------------------------------------------------
(* C5 *)

\* C5: within a word segment, the tokens that are no key of MORSE_TO_TEXT are
\* dropped without a marker, and decoded_text is the characters of the other
\* tokens in their order.
C5_FailOpen ==
  op \in {"morse_to_text", "round_trip"} =>
    LET arg  == IF op = "round_trip" THEN morse ELSE s
        segs == raw_words(arg)
    IN  /\ Len(decoded) = Len(segs)
        /\ \A k \in DOMAIN segs :
             LET known == SelectSeq(WordsOf(segs[k]),
                                    LAMBDA t : t \in DOMAIN MORSE_TO_TEXT)
             IN  decoded[k] = Concat([i \in DOMAIN known |-> MORSE_TO_TEXT[known[i]]])

C5_Witness ==
  /\ op = "morse_to_text"
  /\ s = <<".", " ", "?", " ", "-">>
  /\ decoded = << <<"E", "T">> >>
  /\ text = <<"E", "T">>

-----------------------------------------------------------------------------
(* C6 *)

\* C6: is_morse_line(line) is true when and only when the trimmed line is
\* not empty, every character of it is one of . - / space tab, and at least
\* one is . or -.
C6_Classifier ==
  op = "is_morse_line" =>
    LET solid == {i \in DOMAIN s : s[i] \notin Whitespace}
        first == CHOOSE i \in solid : \A j \in solid : i <= j
        last  == CHOOSE i \in solid : \A j \in solid : j <= i
    IN  isMorse <=>
          /\ solid # {}
          /\ \A i \in first..last : s[i] \in {".", "-", "/", " ", "\t"}
          /\ \E i \in first..last : s[i] \in {".", "-"}

\* A line of slashes and spaces only is classified as not Morse.
C6_Witness ==
  /\ op = "is_morse_line"
  /\ s = <<" ", "/", " ", "/">>
  /\ isMorse = FALSE

-----------------------------------------------------------------------------
(* C7 *)

\* C7: text_to_morse returns one token group per input word, in order, the
\* tokens of a group separated by one space and the groups by " / "; no group
\* is empty, nothing leads or trails, and the result is empty exactly when
\* the input has no word.
C7_Shape ==
  op = "text_to_morse" =>
    LET words  == WordsOf(s)
        groups == GroupsOf(morse)
        n      == Len(words)
    IN  /\ morse = <<>> <=> n = 0
        /\ n > 0 =>
             /\ Len(groups) = n
             /\ \A i \in DOMAIN morse : morse[i] # "\t"
             /\ \A k \in 1..n :
                  LET g    == groups[k]
                      lo   == IF k > 1 THEN 2 ELSE 1
                      hi   == IF k < n THEN Len(g) - 1 ELSE Len(g)
                      core == SubSeq(g, lo, hi)
                  IN  /\ k > 1 => Len(g) >= 1 /\ g[1] = " "
                      /\ k < n => Len(g) >= lo /\ g[Len(g)] = " "
                      /\ core # <<>>
                      /\ NoStraySpace(core)
                      /\ Len(WordsOf(g)) =
                           TokensBefore(words[k], Len(words[k]) + 1)

C7_Witness ==
  /\ op = "text_to_morse"
  /\ s = <<".", " ", " ", "-", " ">>
  /\ morse = TEXT_TO_MORSE[<<".">>] \o <<" ", "/", " ">> \o TEXT_TO_MORSE[<<"-">>]

-----------------------------------------------------------------------------
(* C8 *)

\* C8: a copy is attempted only for a line just encoded and printed, and
\* whatever the copy does (succeed, fail, find no mechanism), what has been
\* printed stays as it is, nothing reaches the error stream and main goes on
\* to read the next line.
C8_ClipboardBestEffort ==
  [][Len(copies') > Len(copies) =>
       /\ pc = "copy"
       /\ stdout[Len(stdout)] = morse
       /\ morse = text_to_morse(line)
       /\ stdout' = stdout
       /\ stderr = <<>> /\ stderr' = <<>>
       /\ pc' = "input"]_vars

\* A copy failed after its line was printed, and main is reading again.
C8_Witness ==
  /\ pc = "input"
  /\ copies = <<FALSE>>
  /\ line = <<"S", "U", "N">>
  /\ stdout = <<Hello, Banner, LetterCodes(<<"S", "U", "N">>)>>
  /\ clipboard = <<>>
  /\ stderr = <<>>

-----------------------------------------------------------------------------
(* C9 *)

WellFormedCode(code, longest) ==
  /\ Len(code) >= 1
  /\ Len(code) <= longest
  /\ \A i \in DOMAIN code : code[i] \in {".", "-"}

\* C9, as claimed: every value of TEXT_TO_MORSE is made of . and - only and
\* has between 1 and 6 characters (each key of the table is an argument s).
C9_CodesUpToSix ==
  (op = "text_to_morse" /\ s \in DOMAIN TEXT_TO_MORSE) =>
    WellFormedCode(TEXT_TO_MORSE[s], 6)

\* C9, amended: every value of TEXT_TO_MORSE is made of . and - only and has
\* between 1 and 7 characters (the code of "$" has 7).
C9_CodesUpToSeven ==
  (op = "text_to_morse" /\ s \in DOMAIN TEXT_TO_MORSE) =>
    WellFormedCode(TEXT_TO_MORSE[s], 7)

\* The code of "$" has been emitted.
C9_Witness ==
  /\ op = "text_to_morse"
  /\ s = <<"$">>
  /\ morse = TEXT_TO_MORSE[s]
  /\ Len(morse) = 7

-----------------------------------------------------------------------------
(* C10 *)

\* C10: the text morse_to_text returns has no leading space, no trailing
\* space and no two consecutive spaces.
C10_NoEmptyWord ==
  op \in {"morse_to_text", "round_trip"} => NoStraySpace(text)

=============================================================================
